---- MODULE Spec2Model ----
(***************************************************************************)
(* Model of the update / integrity subsystem of NMS_ModConflictSuite       *)
(* (updater/auto_updater.py): the persisted version record, the remote     *)
(* repository, the tracked files on disk with their .backup siblings, and  *)
(* the command line modes --check, --verify, --update and --repair.        *)
(*                                                                         *)
(* Optional values (Python's None) are sequences: <<>> is None and <<v>>   *)
(* is the value v.  A commit id is its position in the remote history.     *)
(* A file content is an integer: c >= 1 is the content the                 *)
(* remote introduced at commit c, 0 is content no commit ever held (a      *)
(* hand edit or pre-existing local content), and 0 - c is what a write of  *)
(* content c leaves behind when it fails after the file was truncated.     *)
(***************************************************************************)
EXTENDS Integers, Sequences, FiniteSets, TLC

\* Length of the tracked-file list (8 entries in the source).
NumTracked == 2
\* Number of events of the environment in one behaviour: a commit pushed
\* to the branch, a tracked file edited or deleted outside the tool, or a
\* failed operation (a network request, a directory creation, a copy, an
\* open, a write, an unlink).
MaxEvents == 2

VARIABLES
    disk,      \* tracked file -> optional content
    backup,    \* tracked file -> optional content of its .backup sibling
    vfile,     \* the persisted version_info.json
    remote,    \* the remote history: commit id -> (tracked file -> content)
    dirs,      \* tracked file -> whether its parent directory exists
    events,    \* events of the environment so far
    last       \* what the last run of the tool was given and returned

vars == <<disk, backup, vfile, remote, dirs, events, last>>

None == <<>>
Some(v) == <<v>>
Val(o) == o[1]

Files == 1..NumTracked
TRACKED_FILES == [i \in 1..NumTracked |-> i]
Partial(c) == 0 - c

\* hashlib.sha256(...).hexdigest(): injective on the contents of the model.
Sha256(c) == <<"sha256", c>>
\* The committer date of a commit, as get_latest_commit reports it.
CommitDate(sha) == <<"date", sha>>

-----------------------------------------------------------------------------
\* The version store

ZeroRecord == [last_commit |-> None, file_hashes |-> [f \in Files |-> None], last_check |-> None]

\* json.dump(version_info): None is written as null, a string as a string,
\* and file_hashes as an object with a key for each file that has a hash.
JsonNull == <<"null">>
JsonString(v) == <<"string", v>>
NoKey == <<"no key">>
\* A variant of json_dump that leaves last_check out.
json_dump_WithoutLastCheck(rec) ==
    [last_commit |-> IF rec.last_commit = None THEN JsonNull
                     ELSE JsonString(Val(rec.last_commit)),
     file_hashes |-> [f \in Files |-> IF rec.file_hashes[f] = None THEN NoKey
                                      ELSE JsonString(Val(rec.file_hashes[f]))],
     last_check |-> JsonNull]

json_dump(rec) ==
    [last_commit |-> IF rec.last_commit = None THEN JsonNull
                     ELSE JsonString(Val(rec.last_commit)),
     file_hashes |-> [f \in Files |-> IF rec.file_hashes[f] = None THEN NoKey
                                      ELSE JsonString(Val(rec.file_hashes[f]))],
     last_check |-> IF rec.last_check = None THEN JsonNull
                    ELSE JsonString(Val(rec.last_check))]

\* json.load of a text json_dump wrote, read the way the code reads it:
\* null is None, and file_hashes.get(f) is None for a file without a key.
json_load(text) ==
    [last_commit |-> IF text.last_commit[1] = "string" THEN Some(text.last_commit[2])
                     ELSE None,
     file_hashes |-> [f \in Files |-> IF text.file_hashes[f][1] = "string"
                                      THEN Some(text.file_hashes[f][2]) ELSE None],
     last_check |-> IF text.last_check[1] = "string" THEN Some(text.last_check[2])
                    ELSE None]

\* version_info.json: absent, a JSON record, text that is no valid JSON, or
\* valid JSON that is an object without the keys of a record ("{}").
AbsentFile == [kind |-> "absent", text |-> json_dump(ZeroRecord)]
JsonFile(rec) == [kind |-> "json", text |-> json_dump(rec)]
TruncatedFile == [kind |-> "invalid", text |-> json_dump(ZeroRecord)]
ObjectFile == [kind |-> "object", text |-> json_dump(ZeroRecord)]

\* load_version_info, as its callers read the result with .get(): a file
\* that is absent or no valid JSON gives the zero record, and "{}" is
\* returned as it is, every .get() on it giving None.
load_version_info(vf) == IF vf.kind = "json" THEN json_load(vf.text) ELSE ZeroRecord
\* Whether version_info["last_commit"] and version_info["file_hashes"] find
\* their key in what load_version_info returns; they raise KeyError on "{}".
HasKeys(vf) == vf.kind # "object"

\* how: "ok", "open_fail" (the file cannot be opened for writing) or
\* "write_fail" (json.dump raises after open(..., 'w') truncated the file).
save_version_info(vf, rec, how) ==
    CASE how = "ok" -> JsonFile(rec)
      [] how = "open_fail" -> vf
      [] OTHER -> TruncatedFile

SaveOutcomes == {"ok", "open_fail", "write_fail"}

\* save_version_info is the only writer of the record in this code and never
\* writes the string "null": the record's last_commit is None or a commit id.
is_first_run(version_info) == version_info.last_commit = None

get_current_file_hash(dsk, f) == IF dsk[f] = None THEN None ELSE Some(Sha256(Val(dsk[f])))

-----------------------------------------------------------------------------
\* The remote client

\* get_latest_commit: the head of the branch.
get_latest_commit(rem) == Len(rem)
\* get_file_from_repo: the content of a tracked file at a commit.
get_file_from_repo(rem, f, sha) == rem[sha][f]

-----------------------------------------------------------------------------
\* Classification

\* One entry of get_changed_files for file f; fetched says whether the
\* download of f succeeded.
FileInfo(rec, dsk, rem, sha, f, fetched) ==
    IF fetched
    THEN [name |-> f, error |-> FALSE,
          local_hash |-> rec.file_hashes[f],
          current_hash |-> get_current_file_hash(dsk, f),
          repo_hash |-> Some(Sha256(get_file_from_repo(rem, f, sha))),
          content |-> Some(get_file_from_repo(rem, f, sha))]
    ELSE [name |-> f, error |-> TRUE, local_hash |-> None, current_hash |-> None,
          repo_hash |-> None, content |-> None]

IsChangedInfo(fi) ==
    \/ fi.error
    \/ fi.local_hash # fi.repo_hash
    \/ fi.current_hash # fi.repo_hash
    \/ fi.current_hash = None

\* get_changed_files: the names of the changed files, in the order of
\* TRACKED_FILES; the entry of the file named f is ChangedInfo(..., f).
ChangedInfo(vf, dsk, rem, sha, fetchOK, f) ==
    FileInfo(load_version_info(vf), dsk, rem, sha, f, fetchOK[f])
get_changed_files(vf, dsk, rem, sha, fetchOK) ==
    LET Changed(f) == IsChangedInfo(ChangedInfo(vf, dsk, rem, sha, fetchOK, f))
    IN  SelectSeq(TRACKED_FILES, Changed)

\* Variants of ClassifyInfo, each with one plausible slip.
\* A failed download of a present file counts as corruption on the first run too.
ClassifyInfo_ErrorAlwaysCorrupted(fi, dsk, first_run, last_commit, sha) ==
    IF fi.error
    THEN IF dsk[fi.name] = None THEN "missing" ELSE "corrupted"
    ELSE IF fi.current_hash = None THEN "missing"
    ELSE IF fi.current_hash # fi.repo_hash
    THEN IF ~first_run /\ fi.local_hash # None /\ fi.current_hash # fi.local_hash
         THEN "corrupted"
         ELSE IF last_commit = Some(sha) THEN "corrupted"
         ELSE IF first_run THEN "none"
         ELSE "updated"
    ELSE "none"

\* A failed download never reports the file missing.
ClassifyInfo_ErrorNotMissing(fi, dsk, first_run, last_commit, sha) ==
    IF fi.error
    THEN IF ~first_run THEN "corrupted" ELSE "none"
    ELSE IF fi.current_hash = None THEN "missing"
    ELSE IF fi.current_hash # fi.repo_hash
    THEN IF ~first_run /\ fi.local_hash # None /\ fi.current_hash # fi.local_hash
         THEN "corrupted"
         ELSE IF last_commit = Some(sha) THEN "corrupted"
         ELSE IF first_run THEN "none"
         ELSE "updated"
    ELSE "none"

\* The divergence from the recorded hash is tested before the comparison
\* with the remote hash.
ClassifyInfo_RecordedFirst(fi, dsk, first_run, last_commit, sha) ==
    IF fi.error
    THEN IF dsk[fi.name] = None THEN "missing"
         ELSE IF ~first_run THEN "corrupted" ELSE "none"
    ELSE IF fi.current_hash = None THEN "missing"
    ELSE IF ~first_run /\ fi.local_hash # None /\ fi.current_hash # fi.local_hash
    THEN "corrupted"
    ELSE IF fi.current_hash # fi.repo_hash
    THEN IF last_commit = Some(sha) THEN "corrupted"
         ELSE IF first_run THEN "none"
         ELSE "updated"
    ELSE "none"

\* The same-commit rule is missing.
ClassifyInfo_NoSameCommit(fi, dsk, first_run, last_commit, sha) ==
    IF fi.error
    THEN IF dsk[fi.name] = None THEN "missing"
         ELSE IF ~first_run THEN "corrupted" ELSE "none"
    ELSE IF fi.current_hash = None THEN "missing"
    ELSE IF fi.current_hash # fi.repo_hash
    THEN IF ~first_run /\ fi.local_hash # None /\ fi.current_hash # fi.local_hash
         THEN "corrupted"
         ELSE IF first_run THEN "none"
         ELSE "updated"
    ELSE "none"

\* Every mismatch with the remote counts as corruption after the first run.
ClassifyInfo_MismatchCorrupted(fi, dsk, first_run, last_commit, sha) ==
    IF fi.error
    THEN IF dsk[fi.name] = None THEN "missing"
         ELSE IF ~first_run THEN "corrupted" ELSE "none"
    ELSE IF fi.current_hash = None THEN "missing"
    ELSE IF fi.current_hash # fi.repo_hash
    THEN IF ~first_run THEN "corrupted"
         ELSE IF last_commit = Some(sha) THEN "corrupted"
         ELSE "none"
    ELSE "none"

\* The divergence from the recorded hash is not tested: a newer commit makes
\* every mismatch an update.
ClassifyInfo_UpdateWins(fi, dsk, first_run, last_commit, sha) ==
    IF fi.error
    THEN IF dsk[fi.name] = None THEN "missing"
         ELSE IF ~first_run THEN "corrupted" ELSE "none"
    ELSE IF fi.current_hash = None THEN "missing"
    ELSE IF fi.current_hash # fi.repo_hash
    THEN IF last_commit = Some(sha) THEN "corrupted"
         ELSE IF first_run THEN "none"
         ELSE "updated"
    ELSE "none"

\* The branch of check_for_updates' loop taken for one entry of changed_files:
\* the list the file is appended to, or "none".
ClassifyInfo(fi, dsk, first_run, last_commit, sha) ==
    IF fi.error
    THEN IF dsk[fi.name] = None THEN "missing"
         ELSE IF ~first_run THEN "corrupted" ELSE "none"
    ELSE IF fi.current_hash = None THEN "missing"
    ELSE IF fi.current_hash # fi.repo_hash
    THEN IF ~first_run /\ fi.local_hash # None /\ fi.current_hash # fi.local_hash
         THEN "corrupted"
         ELSE IF last_commit = Some(sha) THEN "corrupted"
         ELSE IF first_run THEN "none"
         ELSE "updated"
    ELSE "none"

\* A variant of Aggregate that counts the missing files only.
Aggregate_MissingOnly(first_run, last_commit, sha, missing_files, corrupted_files, updated_files) ==
    LET critical_issues == Len(missing_files)
        has_updates ==
            IF first_run THEN critical_issues > 0
            ELSE Len(updated_files) > 0 \/ last_commit # Some(sha)
    IN  [updates_available |-> has_updates,
         integrity_status |-> IF critical_issues > 0 THEN "critical" ELSE "ok",
         needs_repair |-> critical_issues > 0]

\* The status check_for_updates derives from the three lists.
Aggregate(first_run, last_commit, sha, missing_files, corrupted_files, updated_files) ==
    LET critical_issues == Len(missing_files) + Len(corrupted_files)
        has_updates ==
            IF first_run THEN critical_issues > 0
            ELSE Len(updated_files) > 0 \/ last_commit # Some(sha)
    IN  [updates_available |-> has_updates,
         integrity_status |-> IF critical_issues > 0 THEN "critical" ELSE "ok",
         needs_repair |-> critical_issues > 0]

\* The result of check_for_updates when it raises: the keys the code does
\* not set hold empty values here.
ErrorResult ==
    [error |-> TRUE, updates_available |-> FALSE, integrity_status |-> "unknown",
     missing_files |-> <<>>, corrupted_files |-> <<>>, updated_files |-> <<>>,
     needs_repair |-> FALSE, can_repair |-> FALSE,
     current_commit |-> None, latest_commit |-> None]

\* commitOK: get_latest_commit succeeds; fetchOK[f]: the download of f
\* in get_changed_files succeeds.  Every exception raised in the body, the
\* KeyError of current_version["last_commit"] included, gives the error
\* result.
check_for_updates(vf, dsk, rem, include_integrity, commitOK, fetchOK) ==
    LET current_version == load_version_info(vf)
        sha == get_latest_commit(rem)
    IN  IF ~commitOK \/ ~HasKeys(vf) THEN ErrorResult
        ELSE IF include_integrity \/ current_version.last_commit # Some(sha)
        THEN LET changed_files == get_changed_files(vf, dsk, rem, sha, fetchOK)
                 first_run == is_first_run(current_version)
                 Class(f) == ClassifyInfo(ChangedInfo(vf, dsk, rem, sha, fetchOK, f), dsk,
                                          first_run, current_version.last_commit, sha)
                 IsMissing(f) == Class(f) = "missing"
                 IsCorrupted(f) == Class(f) = "corrupted"
                 IsUpdated(f) == Class(f) = "updated"
                 missing_files == SelectSeq(changed_files, IsMissing)
                 corrupted_files == SelectSeq(changed_files, IsCorrupted)
                 updated_files == SelectSeq(changed_files, IsUpdated)
                 agg == Aggregate(first_run, current_version.last_commit, sha,
                                  missing_files, corrupted_files, updated_files)
             IN  [error |-> FALSE, updates_available |-> agg.updates_available,
                  integrity_status |-> agg.integrity_status,
                  missing_files |-> missing_files, corrupted_files |-> corrupted_files,
                  updated_files |-> updated_files,
                  needs_repair |-> agg.needs_repair, can_repair |-> TRUE,
                  current_commit |-> current_version.last_commit,
                  latest_commit |-> Some(sha)]
        ELSE [error |-> FALSE, updates_available |-> FALSE, integrity_status |-> "ok",
              missing_files |-> <<>>, corrupted_files |-> <<>>, updated_files |-> <<>>,
              needs_repair |-> FALSE, can_repair |-> TRUE,
              current_commit |-> current_version.last_commit,
              latest_commit |-> Some(sha)]

-----------------------------------------------------------------------------
\* The update executor

\* What happens to one file of a batch.  wr: "fetch_fail" (its download
\* failed), "mkdir_fail" (the parent directory cannot be created),
\* "open_fail" (the file cannot be opened for writing), "write_fail" (the
\* write raises after open(..., 'w') truncated the file) or "ok".
\* bk: shutil.copy2 to the .backup sibling succeeds.  un: the later unlink
\* of the .backup sibling succeeds.
\* "rename_fail" is met by --repair only: the file cannot be renamed to its
\* .backup sibling.
WriteOutcomes == {"fetch_fail", "mkdir_fail", "rename_fail", "open_fail", "write_fail", "ok"}
Outcomes == [wr : WriteOutcomes, bk : BOOLEAN, un : BOOLEAN]
DefaultOutcome == [wr |-> "ok", bk |-> TRUE, un |-> TRUE]

\* backup_file: the backup path returned (TRUE: a path, FALSE: None) and the
\* .backup sibling afterwards.
backup_file(dsk, bak, f, copyOK) ==
    IF dsk[f] # None /\ copyOK
    THEN [path |-> TRUE, backup |-> [bak EXCEPT ![f] = dsk[f]]]
    ELSE [path |-> FALSE, backup |-> bak]

\* A variant of UpdateOne that reports the file written and leaves the old
\* content in place.
UpdateOne_KeepsOldContent(dsk, bak, fi, o) ==
    LET f == fi.name
        b == backup_file(dsk, bak, f, o.bk)
    IN  IF fi.error \/ o.wr = "mkdir_fail"
        THEN [written |-> FALSE, disk |-> dsk[f], backup |-> bak[f], path |-> FALSE]
        ELSE IF o.wr = "open_fail"
        THEN [written |-> FALSE, disk |-> dsk[f], backup |-> b.backup[f], path |-> b.path]
        ELSE IF o.wr = "write_fail"
        THEN [written |-> FALSE, disk |-> Some(Partial(Val(fi.content))),
              backup |-> b.backup[f], path |-> b.path]
        ELSE [written |-> TRUE, disk |-> dsk[f], backup |-> b.backup[f], path |-> b.path]

\* One iteration of update_files' loop on the entry fi with the outcome o:
\* whether the file was written, the file and its .backup sibling afterwards,
\* and the backup path recorded.
UpdateOne(dsk, bak, fi, o) ==
    LET f == fi.name
        b == backup_file(dsk, bak, f, o.bk)
    IN  IF fi.error \/ o.wr = "mkdir_fail"
        THEN [written |-> FALSE, disk |-> dsk[f], backup |-> bak[f], path |-> FALSE]
        ELSE IF o.wr = "open_fail"
        THEN [written |-> FALSE, disk |-> dsk[f], backup |-> b.backup[f], path |-> b.path]
        ELSE IF o.wr = "write_fail"
        THEN [written |-> FALSE, disk |-> Some(Partial(Val(fi.content))),
              backup |-> b.backup[f], path |-> b.path]
        ELSE [written |-> TRUE, disk |-> fi.content, backup |-> b.backup[f], path |-> b.path]

\* A variant of update_files that leaves the loop at the first file that
\* fails: the files after it are in neither list.
update_files_StopsAtFailure(dsk, bak, changed_files, info, out) ==
    LET one == [f \in Files |-> UpdateOne(dsk, bak, info[f], out[f])]
        Reached(i) == \A j \in 1..(i - 1) : one[changed_files[j]].written
        Done(f) == \E i \in 1..Len(changed_files) : changed_files[i] = f /\ Reached(i)
        Written(f) == Done(f) /\ one[f].written
        NotWritten(f) == Done(f) /\ ~one[f].written
        ok == SelectSeq(changed_files, Written)
    IN  [disk |-> [f \in Files |-> IF Done(f) THEN one[f].disk ELSE dsk[f]],
         backup |-> [f \in Files |-> IF Done(f) THEN one[f].backup ELSE bak[f]],
         updated_files |-> [i \in 1..Len(ok) |-> [name |-> ok[i], backup |-> one[ok[i]].path]],
         failed_files |-> SelectSeq(changed_files, NotWritten)]

\* update_files on the batch changed_files (names, with the entry info[f]
\* for the file named f).  An iteration of its loop reads and writes only
\* the file of its entry and its .backup sibling, and changed_files names
\* each file at most once, so the state afterwards is given file by file;
\* updated_files and failed_files keep the order of changed_files.
update_files(dsk, bak, changed_files, info, out) ==
    LET InBatch(f) == \E i \in 1..Len(changed_files) : changed_files[i] = f
        one == [f \in Files |->
                  IF InBatch(f) THEN UpdateOne(dsk, bak, info[f], out[f])
                  ELSE [written |-> FALSE, disk |-> dsk[f], backup |-> bak[f], path |-> FALSE]]
        Written(f) == one[f].written
        NotWritten(f) == ~one[f].written
        ok == SelectSeq(changed_files, Written)
    IN  [disk |-> [f \in Files |-> one[f].disk],
         backup |-> [f \in Files |-> one[f].backup],
         updated_files |-> [i \in 1..Len(ok) |-> [name |-> ok[i], backup |-> one[ok[i]].path]],
         failed_files |-> SelectSeq(changed_files, NotWritten)]

\* cleanup_backup_files: the .backup siblings afterwards.
cleanup_backup_files(bak, updated_files, keep_backups, out) ==
    IF keep_backups THEN bak
    ELSE [f \in Files |->
            IF /\ \E i \in 1..Len(updated_files) :
                    updated_files[i].name = f /\ updated_files[i].backup
               /\ bak[f] # None
               /\ out[f].un
            THEN None ELSE bak[f]]

\* The version record perform_update saves after update_files: the hash of
\* every entry of changed_files that has a repo_hash is recorded.
UpdatedRecord(rec, changed_files, info, sha) ==
    [last_commit |-> Some(sha),
     file_hashes |->
        [f \in Files |->
            IF (\E i \in 1..Len(changed_files) : changed_files[i] = f) /\ ~info[f].error
            THEN info[f].repo_hash
            ELSE rec.file_hashes[f]],
     last_check |-> Some(CommitDate(sha))]

\* perform_update after its check found updates: the second
\* get_changed_files (out[f].wr = "fetch_fail": the download of f fails),
\* update_files, the save of the version record and the cleanup.
\* Returns the status and the state afterwards.
ApplyUpdate(vf, dsk, bak, rem, sha, keep_backups, out, save) ==
    LET fetchOK == [f \in Files |-> out[f].wr # "fetch_fail"]
        info == [f \in Files |-> ChangedInfo(vf, dsk, rem, sha, fetchOK, f)]
        changed_files == get_changed_files(vf, dsk, rem, sha, fetchOK)
        st == update_files(dsk, bak, changed_files, info, out)
    IN  IF Len(changed_files) = 0
        THEN [status |-> "up_to_date", disk |-> dsk, backup |-> bak,
              vfile |-> save_version_info(vf,
                          [load_version_info(vf) EXCEPT !.last_commit = Some(sha)], save),
              updated_files |-> <<>>, failed_files |-> <<>>]
        ELSE [status |-> "success", disk |-> st.disk,
              backup |-> cleanup_backup_files(st.backup, st.updated_files, keep_backups, out),
              vfile |-> save_version_info(vf,
                          UpdatedRecord(load_version_info(vf), changed_files, info, sha), save),
              updated_files |-> st.updated_files, failed_files |-> st.failed_files]

\* The outcomes that can differ for file f in this state: the others are
\* fixed to the default.
RelevantOutcome(vf, dsk, rem, sha, keep_backups, f, o) ==
    LET fi == FileInfo(load_version_info(vf), dsk, rem, sha, f, TRUE)
    IN  IF o.wr = "rename_fail" THEN FALSE
        ELSE IF o.wr = "fetch_fail" THEN o.bk /\ o.un
        ELSE IF ~IsChangedInfo(fi) THEN o = DefaultOutcome
        ELSE /\ (o.wr = "mkdir_fail" \/ dsk[f] = None) => o.bk
             /\ (keep_backups \/ o.wr # "ok" \/ ~o.bk \/ dsk[f] = None) => o.un

-----------------------------------------------------------------------------
\* The parent directories of the tracked files

\* The first tracked file, run_mcs.bat, lies in the base directory, which is
\* the parent of the directory of the running script and so exists; every
\* other tracked file lies in a directory below it.
InBaseDir(f) == f = 1

\* file_path.parent.mkdir(parents=True, exist_ok=True) does nothing, and
\* cannot fail, when the directory exists.
CanFail(drs, f, o) == o.wr = "mkdir_fail" => ~drs[f]

\* The directories after update_files: every entry of the batch that was
\* downloaded gets its directory made before anything else is tried.
UpdateDirs(drs, vf, dsk, rem, sha, out) ==
    LET fetchOK == [f \in Files |-> out[f].wr # "fetch_fail"]
        changed_files == get_changed_files(vf, dsk, rem, sha, fetchOK)
    IN  [f \in Files |->
            \/ drs[f]
            \/ /\ \E i \in 1..Len(changed_files) : changed_files[i] = f
               /\ out[f].wr \notin {"fetch_fail", "mkdir_fail"}]

\* The directories after the repair loop: the directory of a file to repair
\* is made once the file was downloaded.
RepairDirs(drs, result, out) ==
    LET todo == result.missing_files \o result.corrupted_files
    IN  [f \in Files |->
            \/ drs[f]
            \/ /\ \E i \in 1..Len(todo) : todo[i] = f
               /\ out[f].wr \notin {"fetch_fail", "mkdir_fail"}]

-----------------------------------------------------------------------------
\* Version tracking on the first run

\* initialize_version_tracking, up to the save: the record it builds.
initialize_version_tracking(vf, dsk, latest_commit_sha, date) ==
    LET current_version == load_version_info(vf)
    IN  [last_commit |-> Some(latest_commit_sha),
         file_hashes |-> [f \in Files |->
                            IF get_current_file_hash(dsk, f) # None
                            THEN get_current_file_hash(dsk, f)
                            ELSE current_version.file_hashes[f]],
         last_check |-> Some(date)]

\* What the initialization of --verify meets: "lookup_fail" (one of its two
\* get_latest_commit calls raises, and nothing is saved) or the outcome of
\* the save.
InitOutcomes == {"ok", "lookup_fail", "open_fail", "write_fail"}

\* A variant of VerifyInit that does not look at the integrity status.
VerifyInit_WhateverStatus(vf, dsk, rem, result, how) ==
    IF is_first_run(load_version_info(vf)) /\ ~result.error
    THEN IF how = "lookup_fail" THEN vf
         ELSE save_version_info(vf,
                initialize_version_tracking(vf, dsk, get_latest_commit(rem),
                                            CommitDate(get_latest_commit(rem))),
                how)
    ELSE vf

\* The version file after the block of --verify that initializes tracking.
VerifyInit(vf, dsk, rem, result, how) ==
    IF result.integrity_status = "ok" /\ is_first_run(load_version_info(vf))
    THEN IF how = "lookup_fail" THEN vf
         ELSE save_version_info(vf,
                initialize_version_tracking(vf, dsk, get_latest_commit(rem),
                                            CommitDate(get_latest_commit(rem))),
                how)
    ELSE vf

-----------------------------------------------------------------------------
\* The repair executor

\* One iteration of the repair loop of main on file f with the outcome o:
\* whether f was repaired, and f and its .backup sibling afterwards.
RepairOne(dsk, bak, rem, sha, f, o) ==
    LET renamed == dsk[f] # None
        bak1 == IF renamed THEN dsk[f] ELSE bak[f]
    IN  IF o.wr \in {"fetch_fail", "mkdir_fail"} \/ (o.wr = "rename_fail" /\ renamed)
        THEN [repaired |-> FALSE, disk |-> dsk[f], backup |-> bak[f]]
        ELSE IF o.wr = "open_fail"
        THEN [repaired |-> FALSE, disk |-> None, backup |-> bak1]
        ELSE IF o.wr = "write_fail"
        THEN [repaired |-> FALSE, disk |-> Some(Partial(get_file_from_repo(rem, f, sha))),
              backup |-> bak1]
        ELSE [repaired |-> TRUE, disk |-> Some(get_file_from_repo(rem, f, sha)),
              backup |-> bak1]

\* The repair loop over missing_files + corrupted_files.  An iteration
\* reads and writes only its file and the .backup sibling, and no file is in
\* both lists, so the state afterwards is given file by file.
RepairLoop(dsk, bak, rem, sha, todo, out) ==
    LET InTodo(f) == \E i \in 1..Len(todo) : todo[i] = f
        one == [f \in Files |->
                  IF InTodo(f) THEN RepairOne(dsk, bak, rem, sha, f, out[f])
                  ELSE [repaired |-> FALSE, disk |-> dsk[f], backup |-> bak[f]]]
        Repaired(f) == one[f].repaired
        NotRepaired(f) == ~one[f].repaired
    IN  [disk |-> [f \in Files |-> one[f].disk],
         backup |-> [f \in Files |-> one[f].backup],
         repaired |-> SelectSeq(todo, Repaired),
         failed_repairs |-> SelectSeq(todo, NotRepaired)]

\* The version record --repair saves when no repair failed.
RepairedRecord(rec, dsk, todo, sha) ==
    [rec EXCEPT !.last_commit = Some(sha),
                !.file_hashes =
                    [f \in Files |->
                        IF (\E i \in 1..Len(todo) : todo[i] = f)
                           /\ get_current_file_hash(dsk, f) # None
                        THEN get_current_file_hash(dsk, f)
                        ELSE rec.file_hashes[f]]]

\* The .backup siblings after the cleanup of --repair.
RepairCleanup(bak, todo, keep_backups, out) ==
    IF keep_backups THEN bak
    ELSE [f \in Files |->
            IF (\E i \in 1..Len(todo) : todo[i] = f) /\ bak[f] # None /\ out[f].un
            THEN None ELSE bak[f]]

\* A variant of ApplyRepair that also rewrites the files the check found
\* update-available.
ApplyRepair_AlsoUpdates(vf, dsk, bak, rem, sha, result, keep_backups, out, save) ==
    LET todo == result.missing_files \o result.corrupted_files \o result.updated_files
        loop == RepairLoop(dsk, bak, rem, sha, todo, out)
        st == [disk |-> loop.disk, backup |-> loop.backup,
               repaired |-> [k \in 1..Len(loop.repaired) |->
                                [name |-> loop.repaired[k],
                                 backup |-> loop.backup[loop.repaired[k]] # None]],
               failed_repairs |-> loop.failed_repairs]
    IN  IF Len(st.failed_repairs) > 0
        THEN [exit_code |-> 1, disk |-> st.disk, backup |-> st.backup, vfile |-> vf,
              repaired |-> st.repaired, failed_repairs |-> st.failed_repairs]
        ELSE [exit_code |-> 0, disk |-> st.disk,
              backup |-> RepairCleanup(st.backup, todo, keep_backups, out),
              vfile |-> save_version_info(vf,
                          RepairedRecord(load_version_info(vf), st.disk, todo, sha), save),
              repaired |-> st.repaired, failed_repairs |-> st.failed_repairs]

\* --repair after its check found the installation critical and the commit
\* lookup succeeded: the exit code and the state afterwards.  repaired:
\* the files repaired, each with whether a .backup sibling exists after the
\* loop.
ApplyRepair(vf, dsk, bak, rem, sha, result, keep_backups, out, save) ==
    LET todo == result.missing_files \o result.corrupted_files
        loop == RepairLoop(dsk, bak, rem, sha, todo, out)
        st == [disk |-> loop.disk, backup |-> loop.backup,
               repaired |-> [k \in 1..Len(loop.repaired) |->
                                [name |-> loop.repaired[k],
                                 backup |-> loop.backup[loop.repaired[k]] # None]],
               failed_repairs |-> loop.failed_repairs]
    IN  IF Len(st.failed_repairs) > 0
        THEN [exit_code |-> 1, disk |-> st.disk, backup |-> st.backup, vfile |-> vf,
              repaired |-> st.repaired, failed_repairs |-> st.failed_repairs]
        ELSE [exit_code |-> 0, disk |-> st.disk,
              backup |-> RepairCleanup(st.backup, todo, keep_backups, out),
              vfile |-> save_version_info(vf,
                          RepairedRecord(load_version_info(vf), st.disk, todo, sha), save),
              repaired |-> st.repaired, failed_repairs |-> st.failed_repairs]

\* The outcomes that can differ for file f of a repair in this state.
RelevantRepair(dsk, bak, result, keep_backups, f, o) ==
    LET todo == result.missing_files \o result.corrupted_files
    IN  /\ o.bk
        /\ (\A i \in 1..Len(todo) : todo[i] # f) => o = DefaultOutcome
        /\ o.wr = "rename_fail" => dsk[f] # None
        /\ (keep_backups \/ o.wr # "ok" \/ (dsk[f] = None /\ bak[f] = None)) => o.un

-----------------------------------------------------------------------------
\* The record of the last run, and the failures a run can meet

AllOK == [f \in Files |-> TRUE]

\* op: the mode that ran; pre_disk, pre_vfile: the tracked files and the
\* version file it started from; commitOK, fetchOK: whether the commit
\* lookup of its check succeeded, and the downloads of its check that
\* succeeded; chk: what its check_for_updates returned; the rest is what
\* the mode returned or printed.  prev: what the run before it was, when
\* nothing happened to the installation or the remote between the two.
\* answer: what the user answered to the prompt of the interactive mode
\* ("none": no prompt); prompt_check: what the check before the prompt
\* returned.  saved, loaded: the record handed to save_version_info and the
\* record load_version_info returned, when the store is exercised on its own.
\* unlink_failed: the cleanup of the run could not delete a .backup sibling.
\* pre_dirs: the directories that existed when the run started.
\* fetched_at: the commit id the run downloaded the content it wrote at.
NoPrev ==
    [op |-> "none", status |-> "none", wrote |-> FALSE, failed |-> FALSE, updates |-> FALSE]
Summary(run) ==
    [op |-> run.op, status |-> run.status, wrote |-> Len(run.updated_files) > 0,
     failed |-> Len(run.failed_files) > 0, updates |-> Len(run.chk.updated_files) > 0]
NoRun ==
    [op |-> "none", pre_disk |-> [f \in Files |-> None], pre_vfile |-> AbsentFile,
     commitOK |-> TRUE, fetchOK |-> AllOK, chk |-> ErrorResult,
     keep_backups |-> FALSE, status |-> "none", updated_files |-> <<>>,
     failed_files |-> <<>>, is_first_run |-> FALSE, exit_code |-> 0, prev |-> NoPrev,
     answer |-> "none", prompt_check |-> [error |-> FALSE, updates_available |-> FALSE],
     saved |-> None, loaded |-> None, unlink_failed |-> FALSE,
     pre_dirs |-> [f \in Files |-> TRUE], fetched_at |-> None]

Count(S) == Cardinality(S)
Failed(fetchOK) == Count({f \in Files : ~fetchOK[f]})

\* The outcomes of the requests of one check_for_updates: [commitOK,
\* fetchOK].  The files are downloaded only when the commit lookup succeeded.
CheckFaults(i) == Failed(i.fetchOK) + (IF i.commitOK THEN 0 ELSE 1)
AllCheckInputs ==
    [n \in 0..MaxEvents |->
        {x : x \in {i \in [commitOK : BOOLEAN, fetchOK : [Files -> BOOLEAN]] :
                        /\ ~i.commitOK => i.fetchOK = AllOK
                        /\ CheckFaults(i) <= n}}]
\* Those that fit in the budget of n failures; no download fails when the
\* check does not look at the files.
CheckInputs(vf, rem, include_integrity, n) ==
    LET looks == /\ HasKeys(vf)
                 /\ \/ include_integrity
                    \/ load_version_info(vf).last_commit # Some(get_latest_commit(rem))
    IN  {i \in AllCheckInputs[n] : ~looks => i.fetchOK = AllOK}

OutcomeFaults(o) ==
    (IF o.wr = "ok" THEN 0 ELSE 1) + (IF o.bk THEN 0 ELSE 1) + (IF o.un THEN 0 ELSE 1)
SumFaults(out, S) ==
    Count({f \in S : out[f].wr # "ok"}) + Count({f \in S : ~out[f].bk})
        + Count({f \in S : ~out[f].un})
SaveFaults(save) == IF save = "ok" THEN 0 ELSE 1
\* What happens to each file of a batch, within the budget of failures.
OutcomeMaps ==
    [n \in 0..MaxEvents |->
        {x : x \in {o \in [Files -> Outcomes] : SumFaults(o, Files) <= n}}]

-----------------------------------------------------------------------------
\* The initial state: a fresh installation. No version record, no backup,
\* any subset of the tracked files present, each holding the content of the
\* first commit; the directory of an absent file may be missing too; the
\* remote holds one commit.

Init ==
    /\ disk \in [Files -> {None, Some(1)}]
    /\ dirs \in {d \in [Files -> BOOLEAN] :
                    \A f \in Files : (InBaseDir(f) \/ disk[f] # None) => d[f]}
    /\ backup = [f \in Files |-> None]
    /\ vfile = AbsentFile
    /\ remote = <<[f \in Files |-> 1]>>
    /\ events = 0
    /\ last = NoRun

-----------------------------------------------------------------------------
\* main: --check

\* A variant of MainCheck that initializes the version tracking as --verify
\* does.
MainCheck_Initializes ==
    \E i \in CheckInputs(vfile, remote, FALSE, MaxEvents - events) :
        \E result \in {check_for_updates(vfile, disk, remote, FALSE, i.commitOK, i.fetchOK)} :
            /\ last' = [NoRun EXCEPT !.op = "check", !.prev = Summary(last), !.pre_disk = disk, !.pre_dirs = dirs,
                            !.pre_vfile = vfile,
                            !.commitOK = i.commitOK, !.fetchOK = i.fetchOK, !.chk = result,
                            !.exit_code = IF result.error THEN 1 ELSE 0]
            /\ events' = events + CheckFaults(i)
            /\ vfile' = VerifyInit(vfile, disk, remote, result, "ok")
            /\ UNCHANGED <<disk, backup, remote, dirs>>

MainCheck ==
    \E i \in CheckInputs(vfile, remote, FALSE, MaxEvents - events) :
        \E result \in {check_for_updates(vfile, disk, remote, FALSE, i.commitOK, i.fetchOK)} :
            /\ last' = [NoRun EXCEPT !.op = "check", !.prev = Summary(last), !.pre_disk = disk, !.pre_dirs = dirs, !.pre_vfile = vfile,
                            !.commitOK = i.commitOK, !.fetchOK = i.fetchOK, !.chk = result,
                            !.exit_code = IF result.error THEN 1 ELSE 0]
            /\ events' = events + CheckFaults(i)
            /\ UNCHANGED <<disk, backup, vfile, remote, dirs>>

-----------------------------------------------------------------------------
\* main: --update [--keep-backups]

\* perform_update(keep_backups) as a step of the run recorded in run, after
\* spent failures met earlier in the run: its own check_for_updates, then,
\* when updates are available, ApplyUpdate.  error_exit: what main returns
\* when perform_update returns the status "error".  rem2: the remote when the
\* run ends; perform_update looks the latest commit up once, in its check,
\* and downloads everything at that commit id.
PerformUpdate(run0, keep_backups, spent, error_exit, rem2) ==
    \E i \in CheckInputs(vfile, remote, FALSE, MaxEvents - events - spent) :
    \E update_check \in {check_for_updates(vfile, disk, remote, FALSE, i.commitOK, i.fetchOK)} :
        LET sha == get_latest_commit(remote)
            left == MaxEvents - events - spent - CheckFaults(i)
            run == [run0 EXCEPT !.commitOK = i.commitOK, !.fetchOK = i.fetchOK,
                        !.chk = update_check, !.keep_backups = keep_backups]
        IN  IF update_check.error
            THEN /\ last' = [run EXCEPT !.status = "error", !.exit_code = error_exit]
                 /\ events' = events + spent + CheckFaults(i)
                 /\ remote' = rem2
                 /\ UNCHANGED <<disk, backup, vfile, dirs>>
            ELSE IF ~update_check.updates_available
            THEN /\ last' = [run EXCEPT !.status = "up_to_date"]
                 /\ events' = events + spent + CheckFaults(i)
                 /\ remote' = rem2
                 /\ UNCHANGED <<disk, backup, vfile, dirs>>
            ELSE \E rel \in {[f \in Files |->
                               {o \in Outcomes : RelevantOutcome(vfile, disk, remote, sha,
                                                                 keep_backups, f, o)}]} :
                 \E out \in {o \in OutcomeMaps[left] :
                                \A f \in Files : o[f] \in rel[f] /\ CanFail(dirs, f, o[f])} :
                 \E save \in {sv \in SaveOutcomes : SaveFaults(sv) + SumFaults(out, Files) <= left} :
                 \E r \in {ApplyUpdate(vfile, disk, backup, remote, sha, keep_backups, out, save)} :
                    /\ disk' = r.disk
                    /\ backup' = r.backup
                    /\ vfile' = r.vfile
                    /\ last' = [run EXCEPT !.status = r.status,
                                    !.updated_files = r.updated_files,
                                    !.failed_files = r.failed_files,
                                    !.unlink_failed = \E f \in Files : ~out[f].un,
                                    !.fetched_at = Some(sha)]
                    /\ dirs' = UpdateDirs(dirs, vfile, disk, remote, sha, out)
                    /\ events' = events + spent + CheckFaults(i) + SumFaults(out, Files)
                                    + SaveFaults(save)
                    /\ remote' = rem2

\* main returns 1 for --update exactly when perform_update returns the
\* status "error".
MainUpdate ==
    \E keep_backups \in BOOLEAN :
        PerformUpdate([NoRun EXCEPT !.op = "update", !.prev = Summary(last),
                                    !.pre_disk = disk, !.pre_dirs = dirs, !.pre_vfile = vfile],
                      keep_backups, 0, 1, remote)

-----------------------------------------------------------------------------
\* main without a mode: interactive_update

\* What ends the prompt loop: Y or YES, N or NO, or an interrupt
\* (KeyboardInterrupt, or the end of the input); any other answer repeats
\* the prompt.
Answers == {"Y", "N", "interrupt"}

\* interactive_update, where the answers in updating start perform_update.
Interactive(updating) ==
    \E i \in CheckInputs(vfile, remote, FALSE, MaxEvents - events) :
    \E update_check \in {check_for_updates(vfile, disk, remote, FALSE, i.commitOK, i.fetchOK)} :
        LET run == [NoRun EXCEPT !.op = "interactive", !.prev = Summary(last),
                        !.pre_disk = disk, !.pre_dirs = dirs, !.pre_vfile = vfile,
                        !.commitOK = i.commitOK, !.fetchOK = i.fetchOK,
                        !.chk = update_check,
                        !.prompt_check = [error |-> update_check.error,
                                          updates_available |-> update_check.updates_available]]
        IN  IF update_check.error
            THEN /\ last' = [run EXCEPT !.status = "check_error"]
                 /\ events' = events + CheckFaults(i)
                 /\ UNCHANGED <<disk, backup, vfile, remote, dirs>>
            ELSE IF ~update_check.updates_available
            THEN /\ last' = [run EXCEPT !.status = "latest"]
                 /\ events' = events + CheckFaults(i)
                 /\ UNCHANGED <<disk, backup, vfile, remote, dirs>>
            ELSE \E choice \in Answers :
                    IF choice \in updating
                    THEN PerformUpdate([run EXCEPT !.answer = choice], FALSE, CheckFaults(i), 0, remote)
                    ELSE /\ last' = [run EXCEPT !.answer = choice,
                                         !.status = IF choice = "N" THEN "skipped"
                                                    ELSE "cancelled",
                                         !.exit_code = IF choice = "N" THEN 0 ELSE 1]
                         /\ events' = events + CheckFaults(i)
                         /\ UNCHANGED <<disk, backup, vfile, remote, dirs>>

\* A variant of MainInteractive that updates whatever the answer.
MainInteractive_IgnoresAnswer == Interactive(Answers)

MainInteractive == Interactive({"Y"})

-----------------------------------------------------------------------------
\* main: --verify

\* A variant of MainVerify that makes the directory of every tracked file.
MainVerify_MakesDirs ==
    \E i \in CheckInputs(vfile, remote, TRUE, MaxEvents - events) :
    \E result \in {check_for_updates(vfile, disk, remote, TRUE, i.commitOK, i.fetchOK)} :
        /\ vfile' = VerifyInit(vfile, disk, remote, result, "ok")
        /\ dirs' = [f \in Files |-> TRUE]
        /\ last' = [NoRun EXCEPT !.op = "verify", !.prev = Summary(last),
                        !.pre_disk = disk, !.pre_dirs = dirs, !.pre_vfile = vfile,
                        !.commitOK = i.commitOK, !.fetchOK = i.fetchOK, !.chk = result,
                        !.is_first_run = is_first_run(load_version_info(vfile')),
                        !.status = IF /\ result.integrity_status = "ok"
                                      /\ is_first_run(load_version_info(vfile))
                                   THEN "initialized" ELSE "none",
                        !.exit_code = IF result.integrity_status = "critical" THEN 1 ELSE 0]
        /\ events' = events + CheckFaults(i)
        /\ UNCHANGED <<disk, backup, remote>>

MainVerify ==
    \E i \in CheckInputs(vfile, remote, TRUE, MaxEvents - events) :
    \E result \in {check_for_updates(vfile, disk, remote, TRUE, i.commitOK, i.fetchOK)} :
    \E how \in {h \in InitOutcomes :
                    /\ h # "ok" => CheckFaults(i) < MaxEvents - events
                    /\ h # "ok" => /\ result.integrity_status = "ok"
                                   /\ is_first_run(load_version_info(vfile))} :
    \E vf \in {VerifyInit(vfile, disk, remote, result, how)} :
        /\ vfile' = vf
        /\ last' = [NoRun EXCEPT !.op = "verify", !.prev = Summary(last), !.pre_disk = disk, !.pre_dirs = dirs, !.pre_vfile = vfile,
                        !.commitOK = i.commitOK, !.fetchOK = i.fetchOK, !.chk = result,
                        !.is_first_run = is_first_run(load_version_info(vf)),
                        !.status = IF /\ result.integrity_status = "ok"
                                      /\ is_first_run(load_version_info(vfile))
                                   THEN IF how = "ok" THEN "initialized"
                                        ELSE IF how = "lookup_fail" THEN "init_lookup_failed"
                                        ELSE "init_save_failed"
                                   ELSE "none",
                        !.exit_code = IF result.integrity_status = "critical" THEN 1 ELSE 0]
        /\ events' = events + CheckFaults(i) + (IF how = "ok" THEN 0 ELSE 1)
        /\ UNCHANGED <<disk, backup, remote, dirs>>

-----------------------------------------------------------------------------
\* main: --repair [--keep-backups]

\* --repair after spent failures met earlier.  rem2: the remote when
\* get_latest_commit is called the second time (line 591), after the check;
\* the content is downloaded at the commit this second call returns.
Repair(rem2, spent) ==
    \E keep_backups \in BOOLEAN :
    \E i \in CheckInputs(vfile, remote, TRUE, MaxEvents - events - spent) :
    \E result \in {check_for_updates(vfile, disk, remote, TRUE, i.commitOK, i.fetchOK)} :
        LET sha == get_latest_commit(rem2)
            left == MaxEvents - events - spent - CheckFaults(i)
            run == [NoRun EXCEPT !.op = "repair", !.prev = Summary(last), !.pre_disk = disk, !.pre_dirs = dirs, !.pre_vfile = vfile,
                        !.commitOK = i.commitOK, !.fetchOK = i.fetchOK,
                        !.chk = result, !.keep_backups = keep_backups]
        IN  IF result.integrity_status # "critical"
            THEN /\ last' = run
                 /\ events' = events + spent + CheckFaults(i)
                 /\ remote' = rem2
                 /\ UNCHANGED <<disk, backup, vfile, dirs>>
            ELSE \/ \* the second get_latest_commit raises
                    /\ left > 0
                    /\ last' = [run EXCEPT !.status = "error", !.exit_code = 1]
                    /\ events' = events + spent + CheckFaults(i) + 1
                    /\ remote' = rem2
                    /\ UNCHANGED <<disk, backup, vfile, dirs>>
                 \/ \E out \in {o \in OutcomeMaps[left] :
                                  /\ \A f \in Files : RelevantRepair(disk, backup, result,
                                                                     keep_backups, f, o[f])
                                  /\ \A f \in Files : CanFail(dirs, f, o[f])
                                  /\ (\E f \in Files : o[f].wr # "ok")
                                        => \A f \in Files : o[f].un} :
                    \E save \in {sv \in SaveOutcomes :
                                    /\ SaveFaults(sv) + SumFaults(out, Files) <= left
                                    /\ sv # "ok" => \A f \in Files : out[f].wr = "ok"} :
                    \E r \in {ApplyRepair(vfile, disk, backup, rem2, sha, result,
                                          keep_backups, out, save)} :
                        /\ disk' = r.disk
                        /\ backup' = r.backup
                        /\ vfile' = r.vfile
                        /\ last' = [run EXCEPT !.status = "done",
                                        !.updated_files = r.repaired,
                                        !.failed_files = r.failed_repairs,
                                        !.exit_code = r.exit_code,
                                        !.fetched_at = Some(sha)]
                        /\ dirs' = RepairDirs(dirs, result, out)
                        /\ events' = events + spent + CheckFaults(i) + SumFaults(out, Files)
                                        + SaveFaults(save)
                        /\ remote' = rem2

MainRepair == Repair(remote, 0)

-----------------------------------------------------------------------------
\* The environment

\* A tracked file is edited or deleted outside the tool: it gets content no
\* commit held, or the content of some commit (its directory is created with
\* it, and stays when the file is deleted).
ExternalEdit ==
    /\ events < MaxEvents
    /\ \E f \in Files : \E v \in {None} \cup {Some(c) : c \in 0..Len(remote)} :
        /\ v # disk[f]
        /\ disk' = [disk EXCEPT ![f] = v]
        /\ dirs' = [dirs EXCEPT ![f] = dirs[f] \/ v # None]
    /\ events' = events + 1
    /\ last' = NoRun
    /\ UNCHANGED <<backup, vfile, remote>>

\* version_info.json is deleted or overwritten outside the tool: with text
\* that is no JSON, or with the JSON object "{}".
ExternalRecordEdit ==
    /\ events < MaxEvents
    /\ \E vf \in {AbsentFile, TruncatedFile, ObjectFile} :
        /\ vf # vfile
        /\ vfile' = vf
    /\ events' = events + 1
    /\ last' = NoRun
    /\ UNCHANGED <<disk, backup, remote, dirs>>

\* The branch after one more commit is pushed to it: each tracked file keeps
\* its content or gets the content this commit introduces.
Pushes(rem) ==
    LET sha == Len(rem) + 1
        head == rem[Len(rem)]
    IN  {Append(rem, [f \in Files |-> IF f \in ch THEN sha ELSE head[f]]) : ch \in SUBSET Files}

\* A commit is pushed to the branch.
RemotePush ==
    /\ events < MaxEvents
    /\ remote' \in Pushes(remote)
    /\ events' = events + 1
    /\ last' = NoRun
    /\ UNCHANGED <<disk, backup, vfile, dirs>>

Next ==
    \/ MainCheck
    \/ MainVerify
    \/ MainUpdate
    \/ MainInteractive
    \/ MainRepair
    \/ ExternalEdit
    \/ ExternalRecordEdit
    \/ RemotePush

Spec == Init /\ [][Next]_vars

-----------------------------------------------------------------------------
\* Runs during which the branch moves: a commit is pushed while --update or
\* --repair is running, after the commit lookup of its check.

UpdateDuringPush ==
    /\ events < MaxEvents
    /\ \E keep_backups \in BOOLEAN : \E rem2 \in Pushes(remote) :
        PerformUpdate([NoRun EXCEPT !.op = "update", !.prev = Summary(last),
                                    !.pre_disk = disk, !.pre_dirs = dirs, !.pre_vfile = vfile],
                      keep_backups, 1, 1, rem2)

RepairDuringPush ==
    /\ events < MaxEvents
    /\ \E rem2 \in Pushes(remote) : Repair(rem2, 1)

RaceNext ==
    \/ MainCheck
    \/ MainVerify
    \/ MainUpdate
    \/ MainInteractive
    \/ MainRepair
    \/ ExternalEdit
    \/ ExternalRecordEdit
    \/ RemotePush
    \/ UpdateDuringPush
    \/ RepairDuringPush

RaceSpec == Init /\ [][RaceNext]_vars

-----------------------------------------------------------------------------
\* The tool run again and again on an installation left alone: from any
\* installation (each tracked file absent or holding any content; no version
\* file, one that is no JSON, the JSON object "{}", or any record), with a
\* remote of two commits that does not move,
\* --verify, --repair and --update are run for ever, in any order, each of
\* them again and again, and nothing fails (the budget of failures and
\* outside events is spent from the start).

LiveRemote == <<[f \in Files |-> 1], [f \in Files |-> IF f = 1 THEN 2 ELSE 1]>>

LiveRecords ==
    [last_commit : {Some(1), Some(2)},
     file_hashes : [Files -> {None, Some(Sha256(0)), Some(Sha256(1)), Some(Sha256(2))}],
     last_check : {Some(CommitDate(1))}]

LiveInit ==
    /\ disk \in [Files -> {None, Some(0), Some(1), Some(2)}]
    /\ dirs = [f \in Files |-> TRUE]
    /\ backup = [f \in Files |-> None]
    /\ vfile \in {AbsentFile, TruncatedFile, ObjectFile} \cup {JsonFile(r) : r \in LiveRecords}
    /\ remote = LiveRemote
    /\ events = MaxEvents
    /\ last = NoRun

LiveNext == MainVerify \/ MainRepair \/ MainUpdate

LiveSpec ==
    /\ LiveInit
    /\ [][LiveNext]_vars
    /\ WF_vars(MainVerify) /\ WF_vars(MainRepair) /\ WF_vars(MainUpdate)

-----------------------------------------------------------------------------
\* The version store on its own: save_version_info and load_version_info
\* applied to every record of the shape the code builds, from every kind of
\* version file.

Records ==
    [last_commit : {None, Some(1)},
     file_hashes : [Files -> {None, Some(Sha256(0)), Some(Sha256(1))}],
     last_check : {None, Some(CommitDate(1))}]

StoreInit ==
    /\ disk = [f \in Files |-> None]
    /\ dirs = [f \in Files |-> TRUE]
    /\ backup = [f \in Files |-> None]
    /\ vfile \in {AbsentFile, TruncatedFile, ObjectFile}
    /\ remote = <<[f \in Files |-> 1]>>
    /\ events = 0
    /\ last = NoRun

StoreSave ==
    /\ \E r \in Records : \E how \in SaveOutcomes :
        /\ vfile' = save_version_info(vfile, r, how)
        /\ last' = [NoRun EXCEPT !.op = "save",
                                 !.status = IF how = "ok" THEN "saved" ELSE "save_failed",
                                 !.saved = Some(r)]
    /\ UNCHANGED <<disk, backup, remote, dirs, events>>

StoreLoad ==
    /\ last.op # "load"
    /\ last' = [last EXCEPT !.op = "load", !.prev = Summary(last),
                            !.loaded = Some(load_version_info(vfile))]
    /\ UNCHANGED <<disk, backup, vfile, remote, dirs, events>>

StoreNext == StoreSave \/ StoreLoad

StoreSpec == StoreInit /\ [][StoreNext]_vars

-----------------------------------------------------------------------------
\* The vocabulary of the properties: what the last run started from and
\* what its check returned.

Ran == last.op # "none" /\ ~last.chk.error
IntegrityRun == last.op \in {"verify", "repair"}
PreRecord == load_version_info(last.pre_vfile)
PreFirstRun == PreRecord.last_commit = None
LatestSha == Len(remote)
SameCommit == PreRecord.last_commit = Some(LatestSha)
\* The check downloaded and classified the tracked files.
Looked == Ran /\ (IntegrityRun \/ ~SameCommit)
Present(f) == last.pre_disk[f] # None
Fetched(f) == Looked /\ last.fetchOK[f]
FetchFailed(f) == Looked /\ ~last.fetchOK[f]
LiveHash(f) == IF Present(f) THEN Some(Sha256(Val(last.pre_disk[f]))) ELSE None
RemoteHash(f) == Some(Sha256(remote[LatestSha][f]))
RecordedHash(f) == PreRecord.file_hashes[f]
In(f, list) == \E i \in 1..Len(list) : list[i] = f
Missing(f) == In(f, last.chk.missing_files)
Corrupted(f) == In(f, last.chk.corrupted_files)
UpdateAvailable(f) == In(f, last.chk.updated_files)
Healthy(f) == ~Missing(f) /\ ~Corrupted(f) /\ ~UpdateAvailable(f)
PostRecord == load_version_info(vfile)

\* C1: perform_update never leaves the persisted record with last_commit
\* equal to the new commit id when some file of the batch failed (download,
\* directory creation or write).  The code stamps last_commit whatever
\* update_files returned, so this fails.
C1_NoAdvanceOnPartialBatch ==
    (last.op = "update" /\ last.status = "success" /\ Len(last.failed_files) > 0)
        => PostRecord.last_commit # Some(LatestSha)

\* C2: after perform_update a file of the batch that was not written keeps
\* the hash recorded before the run (or stays without a recorded hash).  The
\* code records the remote hash of every entry that was downloaded, written
\* or not, so this fails.
C2_HashOnlyForWrittenFiles ==
    \A f \in Files :
        (last.op = "update" /\ last.status = "success" /\ In(f, last.failed_files)
            /\ vfile.kind = "json")
            => PostRecord.file_hashes[f] = RecordedHash(f)

\* C3: on a first-run installation the check puts no file in corrupted_files
\* whatever the files hold and whichever downloads fail, and reports only
\* absent files as needing action: missing_files holds absent files only and
\* updated_files is empty.
C3_FirstRunNeverCorrupted ==
    (last.op # "none" /\ PreFirstRun)
        => /\ last.chk.corrupted_files = <<>>
           /\ last.chk.updated_files = <<>>
           /\ \A f \in Files : Missing(f) => ~Present(f)
C3_Witness ==
    /\ Ran /\ PreFirstRun
    /\ \E f \in Files : Present(f) /\ Fetched(f) /\ LiveHash(f) # RemoteHash(f)
    /\ \E f \in Files : Present(f) /\ FetchFailed(f)

\* C4: on a first-run installation with every tracked file absent, a check
\* that finds the latest commit reports every tracked file missing, in the
\* order of the tracked-file list, and reports the first run: no current
\* commit, and is_first_run in the output of --verify.
C4_FirstRunAllAbsent ==
    (Ran /\ PreFirstRun /\ \A f \in Files : ~Present(f))
        => /\ last.chk.missing_files = TRACKED_FILES
           /\ last.chk.current_commit = None
           /\ last.op = "verify" => last.is_first_run
C4_Witness ==
    /\ Ran /\ PreFirstRun /\ last.op = "verify"
    /\ \A f \in Files : ~Present(f)
    /\ \E f \in Files : FetchFailed(f)

\* C5: a tracked file whose download succeeded and whose live hash equals
\* the remote hash is healthy (in none of missing_files, corrupted_files,
\* updated_files), whatever hash is recorded for it.
C5_LiveEqualsRemoteHealthy ==
    \A f \in Files : (Fetched(f) /\ LiveHash(f) = RemoteHash(f)) => Healthy(f)
C5_Witness ==
    \E f \in Files :
        /\ Fetched(f) /\ LiveHash(f) = RemoteHash(f)
        /\ RecordedHash(f) # None /\ RecordedHash(f) # RemoteHash(f)

\* C6: in an integrity check of an installation that is not on its first run
\* and whose recorded commit is the latest one, every present file whose
\* live hash differs from the remote hash is corrupted and the status is
\* needs-repair; the files whose live hash equals the remote hash the check
\* downloaded are healthy.
C6_SameCommitMismatchCorrupted ==
    (Ran /\ IntegrityRun /\ ~PreFirstRun /\ SameCommit)
        => \A f \in Files :
            /\ (Present(f) /\ LiveHash(f) # RemoteHash(f))
                => /\ Corrupted(f) /\ ~Missing(f) /\ ~UpdateAvailable(f)
                   /\ last.chk.needs_repair
                   /\ last.chk.integrity_status = "critical"
            /\ (Fetched(f) /\ LiveHash(f) = RemoteHash(f)) => Healthy(f)
C6_Witness ==
    /\ Ran /\ IntegrityRun /\ ~PreFirstRun /\ SameCommit
    /\ \E f \in Files :
        /\ Fetched(f) /\ Present(f) /\ LiveHash(f) # RemoteHash(f)
        /\ (RecordedHash(f) = None \/ RecordedHash(f) = LiveHash(f))
    /\ \E f \in Files : Fetched(f) /\ LiveHash(f) = RemoteHash(f)

\* C7: when the installation is not on its first run and the latest commit
\* differs from the recorded one, a present file whose live hash equals its
\* recorded hash and differs from the remote hash the check downloaded is
\* update-available and
\* not corrupted; when no file is missing or corrupted, updates_available is
\* true and needs_repair false.
C7_NewCommitUpdateAvailable ==
    (Ran /\ ~PreFirstRun /\ ~SameCommit)
        => \A f \in Files :
            (Fetched(f) /\ Present(f) /\ LiveHash(f) = RecordedHash(f)
                /\ LiveHash(f) # RemoteHash(f))
                => /\ UpdateAvailable(f) /\ ~Corrupted(f)
                   /\ (last.chk.missing_files = <<>> /\ last.chk.corrupted_files = <<>>)
                        => (last.chk.updates_available /\ ~last.chk.needs_repair)
C7_Witness ==
    /\ Ran /\ ~PreFirstRun /\ ~SameCommit
    /\ last.chk.missing_files = <<>> /\ last.chk.corrupted_files = <<>>
    /\ \E f \in Files :
        /\ Fetched(f) /\ Present(f) /\ LiveHash(f) = RecordedHash(f)
        /\ LiveHash(f) # RemoteHash(f)

\* C8: when the installation is not on its first run, a check that classifies
\* the files puts a present file whose live hash differs from the remote
\* hash and from a recorded hash in corrupted_files and not in
\* updated_files, also when the latest commit differs from the recorded one.
C8_DivergenceBeatsUpdate ==
    (Ran /\ ~PreFirstRun)
        => \A f \in Files :
            (Looked /\ Present(f) /\ RecordedHash(f) # None
                /\ LiveHash(f) # RemoteHash(f) /\ LiveHash(f) # RecordedHash(f))
                => (Corrupted(f) /\ ~UpdateAvailable(f))
C8_Witness ==
    /\ Ran /\ ~PreFirstRun /\ ~SameCommit
    /\ \E f \in Files :
        /\ Fetched(f) /\ Present(f) /\ RecordedHash(f) # None
        /\ LiveHash(f) # RemoteHash(f) /\ LiveHash(f) # RecordedHash(f)

C10_NeedsRepairIffAnyProblem ==
    Ran => /\ last.chk.needs_repair = (last.chk.integrity_status = "critical")
           /\ last.chk.needs_repair
                = (\E f \in Files : Missing(f) \/ Corrupted(f) \/ FetchFailed(f))

\* C10 as amended: the status is needs-repair exactly when some tracked file
\* is missing or corrupted; a failed download counts through these two only
\* (an absent file is missing, a present file is corrupted after the first
\* run), so on the first run the failed download of a present file does not
\* ask for a repair.
C10_NeedsRepairIffMissingOrCorrupted ==
    Ran => /\ last.chk.needs_repair = (last.chk.integrity_status = "critical")
           /\ last.chk.needs_repair = (\E f \in Files : Missing(f) \/ Corrupted(f))
           /\ last.chk.needs_repair
                = (\E f \in Files :
                     /\ Looked
                     /\ \/ ~Present(f)
                        \/ /\ ~PreFirstRun
                           /\ \/ FetchFailed(f)
                              \/ /\ LiveHash(f) # RemoteHash(f)
                                 /\ \/ SameCommit
                                    \/ /\ RecordedHash(f) # None
                                       /\ LiveHash(f) # RecordedHash(f))
C10_Witness ==
    /\ Ran /\ PreFirstRun /\ ~last.chk.needs_repair
    /\ \E f \in Files : FetchFailed(f) /\ Present(f)

-----------------------------------------------------------------------------
\* Two runs in a row: in a step taken by a run from a state whose last
\* record is a run, the unprimed last is the earlier run, the unprimed
\* files and record are what it left, and the primed last is the later run.

\* The file f is among those the run reports written (updated or repaired).
Wrote(run, f) == \E i \in 1..Len(run.updated_files) : run.updated_files[i].name = f
FailedOn(run, f) == \E i \in 1..Len(run.failed_files) : run.failed_files[i] = f
\* The earlier run is an update that wrote its whole batch.
FullUpdate == last.op = "update" /\ last.status = "success" /\ last.failed_files = <<>>
\* The update saved its record.
RecordSaved == vfile.kind = "json" /\ PostRecord.last_commit = Some(LatestSha)
\* The later run found the latest commit.
NextRan == last'.op # "none" /\ ~last'.chk.error
NextIntegrity == NextRan /\ last'.op \in {"verify", "repair"}
NextHealthy(f) ==
    /\ \A i \in 1..Len(last'.chk.missing_files) : last'.chk.missing_files[i] # f
    /\ \A i \in 1..Len(last'.chk.corrupted_files) : last'.chk.corrupted_files[i] # f
    /\ \A i \in 1..Len(last'.chk.updated_files) : last'.chk.updated_files[i] # f

C11_UpdateIdempotentWhenSaved ==
    [][(FullUpdate /\ NextRan)
        => /\ \A f \in Files :
                ((UpdateAvailable(f) \/ Wrote(last, f)) /\ last'.fetchOK[f])
                    => NextHealthy(f)
           /\ (RecordSaved /\ last'.op = "update")
                => (last'.status = "up_to_date" /\ UNCHANGED <<disk, backup, vfile>>)]_vars
C11_Witness ==
    /\ last.prev.op = "update" /\ last.prev.status = "success"
    /\ last.prev.wrote /\ ~last.prev.failed /\ last.prev.updates
    /\ last.op = "update" /\ last.status = "up_to_date" /\ ~last.chk.error
    /\ load_version_info(last.pre_vfile).last_commit = Some(LatestSha)

\* C12: a --repair run leaves every file it repaired on disk with the
\* remote content of the latest commit (created if it was missing, replaced
\* if it was corrupted) and leaves file_hashes of that file equal to the
\* hash of that content.  The run saves no record at all when the repair of
\* another file failed, so this fails.
C12_RepairedFileAndHash ==
    \A f \in Files :
        (last.op = "repair" /\ Wrote(last, f))
            => /\ disk[f] = Some(remote[LatestSha][f])
               /\ PostRecord.file_hashes[f] = RemoteHash(f)

\* C13: when a --repair run repairs some files and fails on others, the
\* saved record holds the new hash of exactly the repaired files, the
\* recorded hashes of the failed files are unchanged, and the next integrity
\* check still reports each failed file missing or corrupted.  The run
\* returns before it saves anything, so this fails.
C13_PartialRepairRecordsRepaired ==
    [][(/\ last.op = "repair"
        /\ Len(last.updated_files) > 0
        /\ Len(last.failed_files) > 0)
        => \A f \in Files :
            /\ Wrote(last, f) => PostRecord.file_hashes[f] = get_current_file_hash(disk, f)
            /\ FailedOn(last, f)
                => /\ PostRecord.file_hashes[f] = RecordedHash(f)
                   /\ NextIntegrity => ~NextHealthy(f)]_vars

\* C14: when the repair of a file that exists on disk fails, whatever the
\* step that failed, the file still holds its original content afterwards:
\* it is never left absent or partly written.  The repair renames the file
\* away before it writes, and nothing moves it back, so this fails.
C14_FailedRepairKeepsFile ==
    \A f \in Files :
        (last.op = "repair" /\ FailedOn(last, f) /\ Present(f))
            => disk[f] = last.pre_disk[f]

\* C15: a --repair run writes, renames or deletes only tracked files its
\* integrity check put in missing_files or corrupted_files, and their
\* .backup siblings: every other tracked file and its .backup sibling are
\* the same before and after the run.
C15_RepairTouchesOnlyBroken ==
    [][last'.op = "repair"
        => \A f \in Files :
            (/\ \A i \in 1..Len(last'.chk.missing_files) : last'.chk.missing_files[i] # f
             /\ \A i \in 1..Len(last'.chk.corrupted_files) : last'.chk.corrupted_files[i] # f)
                => (disk'[f] = disk[f] /\ backup'[f] = backup[f])]_vars
C15_Witness ==
    /\ last.op = "repair" /\ last.status = "done"
    /\ \E f \in Files : Wrote(last, f)
    /\ \E f \in Files : UpdateAvailable(f) /\ Present(f) /\ disk[f] = last.pre_disk[f]

\* C16: every tracked file that --update writes is one the check of the
\* same run found update-available: it overwrites no file classified
\* corrupted, no local content that was there before the first run, and no
\* healthy file (and creates no file classified missing).  perform_update
\* writes every entry of get_changed_files, so this fails.
C16_UpdateWritesOnlyUpdateAvailable ==
    \A f \in Files : (last.op = "update" /\ Wrote(last, f)) => UpdateAvailable(f)

\* C17: with no change to the files from outside, once a run has classified
\* a file missing, or corrupted after downloading it, the next integrity
\* check still reports it missing or corrupted unless that run wrote the
\* file.  A repair that fails while writing leaves a partly written file
\* that a first-run check accepts, so this fails.
C17_NeedsRepairPersists ==
    [][(last.op # "none" /\ NextIntegrity)
        => \A f \in Files :
            ((Missing(f) \/ (Corrupted(f) /\ last.fetchOK[f])) /\ ~Wrote(last, f))
                => ~(/\ \A i \in 1..Len(last'.chk.missing_files) :
                            last'.chk.missing_files[i] # f
                     /\ \A i \in 1..Len(last'.chk.corrupted_files) :
                            last'.chk.corrupted_files[i] # f)]_vars

\* C18: from a first-run installation with at least one missing file, a
\* --repair run in which every repair succeeds is followed by an integrity
\* check (whose downloads succeed) that reports no missing and no corrupted
\* file, whatever the other tracked files held.  The repair stamps
\* last_commit, after which local content that differs from the remote is
\* corrupted by the same-commit rule, so this fails.
C18_FirstRunRepairThenHealthy ==
    [][(/\ last.op = "repair" /\ last.status = "done" /\ last.exit_code = 0
        /\ PreFirstRun
        /\ Len(last.chk.missing_files) > 0
        /\ NextIntegrity /\ last'.fetchOK = AllOK)
        => /\ last'.chk.missing_files = <<>>
           /\ last'.chk.corrupted_files = <<>>]_vars

\* C19: a --check run changes nothing: the version file, every tracked file
\* and every .backup sibling are the same before and after the run,
\* whatever the state it starts from and whatever its requests return.
C19_CheckMutatesNothing ==
    [][last'.op = "check" => UNCHANGED <<disk, backup, vfile>>]_vars
C19_Witness ==
    /\ last.op = "check" /\ Ran /\ PreFirstRun
    /\ last.chk.integrity_status = "ok"
    /\ \E f \in Files : FetchFailed(f)
    /\ vfile = last.pre_vfile /\ disk = last.pre_disk

\* The record initialize_version_tracking builds from the files as they are:
\* the latest commit and the live hash of every present file.
TrackingOf(dsk) ==
    [last_commit |-> Some(LatestSha),
     file_hashes |-> [f \in Files |->
                        IF dsk[f] = None THEN None ELSE Some(Sha256(Val(dsk[f])))],
     last_check |-> Some(CommitDate(LatestSha))]

\* C20 as claimed: a --verify run writes no tracked file; when the
\* installation is on its first run, the integrity status is ok and the
\* commit lookup of the initialization succeeds, it leaves the record with
\* last_commit = the latest commit and the live hash of every present file;
\* in every other case (not first run, critical status, commit lookup
\* failed) the version file is unchanged.
C20_VerifyInitializesOnHealthyFirstRun ==
    [][last'.op = "verify"
        => /\ UNCHANGED <<disk, backup>>
           /\ IF /\ is_first_run(load_version_info(vfile))
                 /\ last'.chk.integrity_status = "ok"
                 /\ last'.status # "init_lookup_failed"
              THEN load_version_info(vfile') = TrackingOf(disk)
              ELSE vfile' = vfile]_vars

\* C20 as amended: as claimed, except that the record is the initialized one
\* only when the save of the initialization succeeds; when the save fails
\* the run goes on and the record read back is the one from before the run.
C20_VerifyInitializesUnlessSaveFails ==
    [][last'.op = "verify"
        => /\ UNCHANGED <<disk, backup>>
           /\ IF /\ is_first_run(load_version_info(vfile))
                 /\ last'.chk.integrity_status = "ok"
                 /\ last'.status # "init_lookup_failed"
              THEN IF last'.status = "initialized"
                   THEN load_version_info(vfile') = TrackingOf(disk)
                   ELSE /\ last'.status = "init_save_failed"
                        /\ load_version_info(vfile') = load_version_info(vfile)
              ELSE vfile' = vfile]_vars
C20_Witness ==
    /\ last.op = "verify" /\ last.status = "initialized" /\ PreFirstRun
    /\ PostRecord = TrackingOf(disk)
    /\ \E f \in Files : Present(f) /\ LiveHash(f) # RemoteHash(f)

\* C21: in interactive mode the tracked files, the .backup siblings and the
\* version file change only in a run where the user answered Y or YES; a
\* run that answers N or NO, is interrupted at the prompt, or whose check
\* reports an error or no updates (and so never prompts) changes nothing.
C21_InteractiveMutatesOnlyOnYes ==
    [][last'.op = "interactive"
        => /\ last'.answer # "Y" => UNCHANGED <<disk, backup, vfile>>
           /\ (last'.prompt_check.error \/ ~last'.prompt_check.updates_available)
                => (last'.answer = "none" /\ UNCHANGED <<disk, backup, vfile>>)]_vars
C21_Witness ==
    /\ last.op = "interactive" /\ last.answer = "N"
    /\ last.prompt_check.updates_available
    /\ \E f \in Files : Missing(f)
    /\ \E f \in Files : UpdateAvailable(f)
    /\ disk = last.pre_disk /\ vfile = last.pre_vfile

\* C22: in every mode the exit code is 1 when the latest-commit lookup of
\* the run failed, and an exit code 0 comes only with a check that returned
\* no error.  --verify, --repair and the interactive mode return 0 on the
\* error result, so this fails.
C22_ExitCodeOneOnLookupFailure ==
    last.op \in {"check", "update", "verify", "repair", "interactive"}
        => /\ ~last.commitOK => last.exit_code = 1
           /\ last.exit_code = 0 => ~last.chk.error

\* C23: check_for_updates returns the top-level error result exactly when
\* its latest-commit lookup fails; a failed download of a tracked file never
\* does.  A version file holding JSON without the keys of a record makes it
\* return the error result with the lookup succeeding, so this fails.
C23_ErrorIffLookupFails ==
    last.op \in {"check", "update", "verify", "repair", "interactive"}
        => (last.chk.error <=> ~last.commitOK)

\* C24: whatever the version file holds (absent, no valid JSON, or JSON
\* that is no record with last_commit and file_hashes), a check whose commit
\* lookup succeeds returns no error result and returns what it returns when
\* the version file is absent.  This fails for JSON without the keys.
C24_BadStateIsNoPriorState ==
    (/\ last.op \in {"check", "update", "verify", "repair", "interactive"}
     /\ last.pre_vfile.kind # "json"
     /\ last.commitOK)
        => /\ ~last.chk.error
           /\ last.chk = check_for_updates(AbsentFile, last.pre_disk, remote,
                                           last.op \in {"verify", "repair"},
                                           TRUE, last.fetchOK)

\* C25: when save_version_info(r) returns success, the load_version_info
\* that follows returns a record equal to r, for every record r.
C25_SaveLoadRoundTrip ==
    (last.op = "load" /\ last.prev.op = "save" /\ last.prev.status = "saved")
        => last.loaded = last.saved
C25_Witness ==
    /\ last.op = "load" /\ last.prev.op = "save" /\ last.prev.status = "saved"
    /\ last.saved # None /\ last.loaded = last.saved
    /\ Val(last.saved).last_commit # None
    /\ Val(last.saved).last_check = None
    /\ \E f \in Files : Val(last.saved).file_hashes[f] = None
    /\ \E f \in Files : Val(last.saved).file_hashes[f] # None

\* perform_update ran update_files on a batch.
Updated == last.op \in {"update", "interactive"} /\ last.status = "success"
\* The entry of f in the batch of the run, had its download succeeded: a
\* file whose entry is changed is in the batch whatever its download did, and
\* any other file is in the batch only with a failed download.
ChangedIfFetched(f) ==
    IsChangedInfo(FileInfo(PreRecord, last.pre_disk, remote, LatestSha, f, TRUE))

\* C26: after update_files every file of the batch is in exactly one of
\* updated_files and failed_files, the files that come after a failed file
\* included; a file in updated_files holds the new content and a file outside
\* the batch is in neither list.
C26_EachFileInOneList ==
    Updated
        => \A f \in Files :
            /\ ~(Wrote(last, f) /\ FailedOn(last, f))
            /\ ChangedIfFetched(f) => (Wrote(last, f) \/ FailedOn(last, f))
            /\ ~ChangedIfFetched(f) => ~Wrote(last, f)
            /\ Wrote(last, f) => disk[f] = Some(remote[LatestSha][f])
C26_Witness ==
    /\ Updated
    /\ \E f, g \in Files : f < g /\ FailedOn(last, f) /\ Wrote(last, g)

\* C27: in an update run and in a repair run the tracked files are written
\* in the order of the tracked-file list: a file is never written after a
\* file that comes later in the list.  --repair goes through missing_files
\* and then corrupted_files, so this fails.
C27_WritesInTrackedOrder ==
    last.op \in {"update", "interactive", "repair"}
        => \A i, j \in 1..Len(last.updated_files) :
                i < j => last.updated_files[i].name < last.updated_files[j].name

\* C28: perform_update(keep_backups=True) leaves, for every file it updated
\* that existed before, a .backup sibling holding the content from before the
\* update; perform_update(keep_backups=False) whose deletions all succeed
\* leaves no .backup sibling it created; either way an updated file holds
\* the new content.  A failed copy is ignored and the file overwritten, so
\* this fails.
C28_BackupsKeptOrCleaned ==
    [][(last'.op \in {"update", "interactive"} /\ last'.status = "success")
        => \A f \in Files :
            /\ (last'.keep_backups /\ Wrote(last', f) /\ disk[f] # None)
                    => backup'[f] = disk[f]
            /\ (~last'.keep_backups /\ ~last'.unlink_failed)
                    => (backup'[f] = None \/ backup'[f] = backup[f])
            /\ Wrote(last', f) => disk'[f] = Some(remote[LatestSha][f])]_vars

\* C30: the default check (--check, --update, interactive) reports the
\* needs_repair, missing_files and corrupted_files that the integrity check
\* reports on the same state with the same downloads, also when the recorded
\* last_commit is the latest commit.  With the commit unchanged the default
\* check does not look at the files, so this fails.
C30_DefaultCheckReportsIntegrity ==
    (last.op \in {"check", "update", "interactive"} /\ last.commitOK)
        => LET full == check_for_updates(last.pre_vfile, last.pre_disk, remote, TRUE,
                                         TRUE, last.fetchOK)
           IN  /\ last.chk.needs_repair = full.needs_repair
               /\ last.chk.missing_files = full.missing_files
               /\ last.chk.corrupted_files = full.corrupted_files

\* The modes of the command line.
Modes == {"check", "update", "verify", "repair", "interactive"}

\* C29 as claimed: no run of the updater creates, writes, renames or deletes
\* a path other than the tracked files, their .backup siblings and the
\* version file: in particular the directories are the same before and after
\* every run.  (file_hashes has no key outside the tracked-file list: it is
\* a map over the tracked files here.)
C29_TouchesOnlyTrackedPaths ==
    last.op \in Modes => dirs = last.pre_dirs

\* C29 as amended: besides the tracked files, their .backup siblings and
\* the version file, a run creates only the missing parent directory of a
\* tracked file it goes on to write, and only in --update, the interactive
\* mode and --repair; --check and --verify leave the directories as they are,
\* and no directory is ever removed.
C29_TouchesOnlyTrackedPathsAndDirs ==
    last.op \in Modes
        => \A f \in Files :
            /\ last.pre_dirs[f] => dirs[f]
            /\ (dirs[f] /\ ~last.pre_dirs[f])
                => /\ last.op \in {"update", "interactive", "repair"}
                   /\ last.pre_disk[f] = None
                   /\ Wrote(last, f) \/ FailedOn(last, f)
C29_Witness ==
    /\ last.op = "repair"
    /\ \E f \in Files : ~last.pre_dirs[f] /\ dirs[f] /\ Wrote(last, f)
    /\ \E f \in Files : last.pre_disk[f] # None /\ Corrupted(f) /\ Wrote(last, f)

\* C31: after --verify has initialized the version tracking, the integrity
\* check that follows at once (downloads succeeding) reports no corrupted
\* file.  The initialization stamps last_commit, and the same-commit rule
\* then calls every file that differs from the remote corrupted, so this
\* fails.
C31_InitializationNeverCorrupts ==
    [][(/\ last.op = "verify" /\ last.status = "initialized"
        /\ NextIntegrity /\ last'.fetchOK = AllOK)
        => last'.chk.corrupted_files = <<>>]_vars

\* C32: a file that was update-available before a successful --repair, with
\* its content equal to the recorded one, and that the repair did not write,
\* is reported update-available by the next check.  The repair stamps
\* last_commit with the latest commit, so this fails.
C32_RepairKeepsUpdateAvailable ==
    [][(/\ last.op = "repair" /\ last.status = "done" /\ last.exit_code = 0
        /\ NextRan /\ last'.fetchOK = AllOK)
        => \A f \in Files :
            (UpdateAvailable(f) /\ LiveHash(f) = RecordedHash(f) /\ ~Wrote(last, f))
                => In(f, last'.chk.updated_files)]_vars

\* C33: when perform_update failed to download or write some tracked file,
\* the --check that follows at once does not report an up-to-date
\* installation: updates_available or needs_repair is true.  The update
\* stamps last_commit all the same (C1), and the default check then skips
\* the files, so this fails.
C33_FailedUpdateStaysPending ==
    [][(/\ last.op = "update" /\ last.status = "success"
        /\ \E f \in Files : FailedOn(last, f)
        /\ last'.op = "check" /\ ~last'.chk.error)
        => (last'.chk.updates_available \/ last'.chk.needs_repair)]_vars

\* C34: update_files overwrites a tracked file that exists only after
\* backup_file made its backup copy: a written file that existed has a
\* backup path recorded.  A failed copy is ignored, so this fails.
C34_OverwriteOnlyWithBackup ==
    last.op \in {"update", "interactive"}
        => \A i \in 1..Len(last.updated_files) :
                Present(last.updated_files[i].name) => last.updated_files[i].backup

\* C36: perform_update returns the status success only when the record it
\* built was saved.  It ignores what save_version_info returns, so this
\* fails.
C36_SuccessOnlyWhenSaved ==
    (last.op \in {"update", "interactive"} /\ last.status = "success")
        => RecordSaved

\* C35: a save_version_info that fails leaves the record persisted before
\* it in place: load_version_info returns after the failed save what it
\* returned before.  The file is opened for writing, hence emptied, before
\* json.dump can fail, so this fails.
C35_FailedSaveKeepsRecord ==
    [][(/\ last'.op = "save" /\ last'.status = "save_failed"
        /\ vfile.kind = "json")
        => load_version_info(vfile') = load_version_info(vfile)]_vars

\* C37: the commit id a run records is the one it downloaded the content it
\* wrote at, also when a commit is pushed while it runs: a perform_update
\* that returns success and saved a record has recorded the commit id its
\* files were fetched at, and so has a --repair, whose commit id is moreover
\* the one its check classified the files against.  --repair looks the
\* latest commit up a second time after its check, so this fails.
C37_RecordsCommitFetchedAt ==
    LET persisted == vfile.kind = "json" /\ vfile # last.pre_vfile
    IN  /\ (last.op \in {"update", "interactive"} /\ last.status = "success" /\ persisted)
            => /\ PostRecord.last_commit = last.fetched_at
               /\ \A f \in Files :
                    Wrote(last, f) => disk[f] = Some(remote[Val(last.fetched_at)][f])
        /\ (last.op = "repair" /\ last.status = "done" /\ last.exit_code = 0 /\ persisted)
            => /\ PostRecord.last_commit = last.fetched_at
               /\ \A f \in Files :
                    Wrote(last, f) => disk[f] = Some(remote[Val(last.fetched_at)][f])
               /\ last.fetched_at = last.chk.latest_commit

\* The installation is not a first run and every tracked file holds the
\* content of the latest commit.
AllAtLatest ==
    /\ ~is_first_run(PostRecord)
    /\ \A f \in Files : disk[f] = Some(remote[Len(remote)][f])
\* The hash recorded for every tracked file is the hash of its content.
AllRecorded ==
    \A f \in Files : PostRecord.file_hashes[f] = get_current_file_hash(disk, f)

\* C38: with the remote unchanged, no outside change and no failure,
\* running --verify, --repair and --update again and again ends in an
\* installation that is not a first run, where every tracked file's hash on
\* disk equals the remote hash and the recorded hash, and stays there.  With
\* a version file "{}" every check ends in the KeyError of C24 and no run
\* does anything; and a file the tool never wrote gets no recorded hash.
C38_ConvergesToRecorded == <>[](AllAtLatest /\ AllRecorded)

\* What the runs do reach when the version file has its keys: every tracked
\* file holds the content of the latest commit, for good.
C38_ConvergesToLatestWithKeys == <>[](HasKeys(vfile) => AllAtLatest)

====
